---- MODULE Spec2Model ----
(***************************************************************************)
(* Model of directory-tool (src/main.c): main, parse_options, recurse_dir, *)
(* update_latest_file, is_after_date, is_excluded.                         *)
(*                                                                         *)
(* Strings.  A C string is modelled as [pad, tail]: `pad` characters of    *)
(* the root path given with -p (opaque, all part of one prefix) followed   *)
(* by the characters of `tail`.  Every path the program builds has this    *)
(* shape, so the representation loses nothing; it keeps the byte length    *)
(* exact, which the 1024-byte buffer of recurse_dir needs.                 *)
(*                                                                         *)
(* Platform.  The program joins paths with a backslash, so the model is    *)
(* of a platform whose path separator is the backslash.                    *)
(***************************************************************************)
EXTENDS Integers, Sequences, FiniteSets, TLC

\* ---------------------------------------------------------------- bounds
MaxEntries == 3
MaxTime == 1
MaxArgs == 3
ShortRootLen == 4
CutoffTime == 1
LongSlack == 2

\* ------------------------------------------------------ program constants
PathBufSize == 1024

Sep == "\\"
NULL == [null |-> TRUE]

Entry == 1..MaxEntries
Node == 0..MaxEntries
Times == 0..MaxTime
NoMeta == [known |-> FALSE]
\* Calls of recurse_dir the stack holds; more than any tree of Trees is deep.
MaxStack == MaxEntries + 2

\* ---------------------------------------------------------------- strings
RootStr(len) == [pad |-> len, tail |-> <<>>]

strlen(s) == s.pad + Len(s.tail)

Cat(s, chars) == [pad |-> s.pad, tail |-> s.tail \o chars]

\* What snprintf(buf, size, ...) leaves in buf for the untruncated text s:
\* at most size - 1 characters of it.
snprintf(size, s) ==
    IF strlen(s) <= size - 1 THEN s
    ELSE IF s.pad >= size - 1 THEN [pad |-> size - 1, tail |-> <<>>]
    ELSE [pad |-> s.pad, tail |-> SubSeq(s.tail, 1, size - 1 - s.pad)]

\* snprintf(path, sizeof(path), "%s\\%s", basePath, dp->d_name)
JoinPath(basePath, d_name) == snprintf(PathBufSize, Cat(basePath, <<Sep>> \o d_name))

\* strstr(filename, pattern) != NULL
is_excluded(filename, pattern) ==
    \E i \in 1..(Len(filename) + 1) :
        /\ i + Len(pattern) - 1 <= Len(filename)
        /\ SubSeq(filename, i, i + Len(pattern) - 1) = pattern

\* ------------------------------------------------------------ file system
Max(a, b) == IF a > b THEN a ELSE b

\* The effective time of an entry: the later of ctime and mtime.
Effective(st) == Max(st.ctime, st.mtime)

\* Entry n has a fixed name: "a", "b", "aa", "ab", ... (distinct for distinct n).
RECURSIVE NameOf(_)
NameOf(n) ==
    IF n = 0 THEN <<>>
    ELSE NameOf((n - 1) \div 2) \o <<IF (n - 1) % 2 = 0 THEN "a" ELSE "b">>

Dot == <<".">>
DotDot == <<".", ".">>

\* Metadata fixed in advance: as many time values as entries, so that the
\* effective times can all differ; one of ctime and mtime is the effective
\* time and the other is 0.
KnownTimes == 0..(MaxEntries - 1)
KnownMetas ==
    {m \in [Entry -> [known : {TRUE}, ctime : KnownTimes, mtime : KnownTimes]] :
        /\ \A a \in Entry : m[a].ctime = 0 \/ m[a].mtime = 0
        /\ \A a, b \in Entry :
              a # b => Max(m[a].ctime, m[a].mtime) # Max(m[b].ctime, m[b].mtime)}


\* The trees: entry n lies in the root (0) or in an earlier entry that is a
\* directory.
Trees ==
    {t \in [parent : [Entry -> Node], isDir : [Entry -> BOOLEAN]] :
        \A n \in Entry :
            /\ t.parent[n] < n
            /\ t.parent[n] # 0 => t.isDir[t.parent[n]]}

Children(f, d) == {n \in Entry : f.parent[n] = d}

\* What readdir returns for directory d, in order: ".", "..", the entries.
Listing(f, d) ==
    LET kids == SelectSeq([i \in 1..MaxEntries |-> i], LAMBDA c : f.parent[c] = d)
    IN  <<Dot, DotDot>> \o [i \in 1..Len(kids) |-> NameOf(kids[i])]

RECURSIVE FullPath(_, _)
FullPath(f, n) ==
    IF n = 0 THEN RootStr(f.rootLen)
    ELSE Cat(FullPath(f, f.parent[n]), <<Sep>> \o NameOf(n))

\* The node a path string names, or -1 when there is none.
Resolve(f, s) ==
    IF \E n \in Node : FullPath(f, n) = s
    THEN CHOOSE n \in Node : FullPath(f, n) = s
    ELSE -1

NodeIsDir(f, n) == n = 0 \/ (n \in Entry /\ f.isDir[n])

RECURSIVE Depth(_, _)
Depth(f, n) == IF n = 0 THEN 1 ELSE 1 + Depth(f, f.parent[n])

\* Nesting depth of the directories of the tree, the root counting as 1.
TreeDepth(f) ==
    LET ds == {Depth(f, n) : n \in {m \in Node : NodeIsDir(f, m)}}
    IN  CHOOSE d \in ds : \A e \in ds : e <= d

\* ---------------------------------------------------------- parse_options
ValidDate == [valid |-> TRUE, midnight |-> CutoffTime]
BadDate == [valid |-> FALSE, midnight |-> 0]
Pattern == [chars |-> <<"a">>]

\* One element of argv as getopt hands it over: the option character ("?"
\* for a character that is not in "hp:b:e:v") and its argument.  -v only
\* adds progress lines to the output, which the model does not record, so
\* the command lines drawn do not use it.
Tokens(f) ==
    {[opt |-> "h", arg |-> NULL], [opt |-> "?", arg |-> NULL],
     [opt |-> "p", arg |-> RootStr(f.rootLen)],
     [opt |-> "b", arg |-> ValidDate], [opt |-> "b", arg |-> BadDate],
     [opt |-> "e", arg |-> Pattern]}

ArgvSet(f) == UNION {[1..k -> Tokens(f)] : k \in 0..MaxArgs}

NoOptions ==
    [basePath |-> NULL, beforeDate |-> NULL, excludePattern |-> NULL, verbose |-> 0]

RECURSIVE getopt_loop(_, _, _)
getopt_loop(argv, i, o) ==
    IF i > Len(argv)
    THEN [result |-> IF o.basePath = NULL THEN 1 ELSE 2, options |-> o]
    ELSE LET t == argv[i] IN
         CASE t.opt \in {"h", "?"} -> [result |-> 0, options |-> o]
           [] t.opt = "p" -> getopt_loop(argv, i + 1, [o EXCEPT !.basePath = t.arg])
           [] t.opt = "b" -> getopt_loop(argv, i + 1, [o EXCEPT !.beforeDate = t.arg])
           [] t.opt = "e" -> getopt_loop(argv, i + 1, [o EXCEPT !.excludePattern = t.arg])
           [] t.opt = "v" -> getopt_loop(argv, i + 1, [o EXCEPT !.verbose = 1])
           [] OTHER -> [result |-> 1, options |-> o]

parse_options(argv) == getopt_loop(argv, 1, NoOptions)

\* main, line 169: `return result = 0 ? 0 : 1;` assigns (0 ? 0 : 1) to result
\* and returns it.
MainEarlyReturn(result) == IF 0 # 0 THEN 0 ELSE 1

\* ------------------------------------------------------ update_latest_file
\* update_latest_file with `>=` in place of `>`.
update_latest_file_ge(latest, heap, path, ctime, mtime, mallocOk) ==
    LET new_time == IF ctime > mtime THEN ctime ELSE mtime IN
    IF latest.path = NULL \/ new_time >= latest.time
    THEN IF ~mallocOk
         THEN [latest |-> latest, heap |-> heap, malloc |-> "fail"]
         ELSE [latest |-> [path |-> path, time |-> new_time],
               heap |-> (heap \ {latest.path}) \cup {path},
               malloc |-> "ok"]
    ELSE [latest |-> latest, heap |-> heap, malloc |-> "none"]

\* update_latest_file that frees the old path and stores the new time before
\* it looks at what malloc returned.
update_latest_file_free_first(latest, heap, path, ctime, mtime, mallocOk) ==
    LET new_time == IF ctime > mtime THEN ctime ELSE mtime IN
    IF latest.path = NULL \/ new_time > latest.time
    THEN IF ~mallocOk
         THEN [latest |-> [latest EXCEPT !.time = new_time],
               heap |-> heap \ {latest.path}, malloc |-> "fail"]
         ELSE [latest |-> [path |-> path, time |-> new_time],
               heap |-> (heap \ {latest.path}) \cup {path},
               malloc |-> "ok"]
    ELSE [latest |-> latest, heap |-> heap, malloc |-> "none"]

update_latest_file(latest, heap, path, ctime, mtime, mallocOk) ==
    LET new_time == IF ctime > mtime THEN ctime ELSE mtime IN
    IF latest.path = NULL \/ new_time > latest.time
    THEN IF ~mallocOk
         THEN [latest |-> latest, heap |-> heap, malloc |-> "fail"]
         ELSE [latest |-> [path |-> path, time |-> new_time],
               heap |-> (heap \ {latest.path}) \cup {path},
               malloc |-> "ok"]
    ELSE [latest |-> latest, heap |-> heap, malloc |-> "none"]

\* is_after_date, lines 94-107.  The body calls strftime with three
\* arguments of the wrong types where strptime into cutoff_tm was meant, and
\* hands a time_t to mktime: what it returns is not determined by the code.
\* The model takes every outcome.
is_after_date(file_time, cutoff_date) == BOOLEAN

\* ------------------------------------------------------------------ state
VARIABLES
    fs,          \* the directory tree: parent, isDir, rootLen, meta
    pc,          \* main: "start", "walk", "exit"
    options,     \* struct ProgramOptions
    given,       \* the option characters getopt returned
    stack,       \* the active recurse_dir calls, innermost last
    latest,      \* struct LatestFileInfo
    heap,        \* the live malloc blocks (their contents)
    cur,         \* the entry the last step evaluated: path, statbuf, verdict
    hist,        \* the entries readdir returned, the directories opened,
                 \* whether an entry was offered, whether a call failed
    output,      \* what main printed
    exitStatus   \* the value main returned, -1 while running

vars == <<fs, pc, options, given, stack, latest, heap, cur, hist, output, exitStatus>>

Idle == [verdict |-> "idle"]
NoOutput == [kind |-> "none"]

NoHist == [iterated |-> {}, opened |-> {}, offered |-> FALSE, faulted |-> FALSE]

InitWith(rootLens, metas) ==
    /\ fs \in {[parent |-> t.parent, isDir |-> t.isDir, rootLen |-> l, meta |-> m] :
                 t \in Trees, l \in rootLens, m \in metas}
    /\ pc = "start"
    /\ options = NoOptions
    /\ given = {}
    /\ stack = <<>>
    /\ latest = [path |-> NULL, time |-> 0]
    /\ heap = {}
    /\ cur = Idle
    /\ hist = NoHist
    /\ output = NoOutput
    /\ exitStatus = -1

\* The metadata of the entries is whatever stat reports when it is called.
Init == InitWith({ShortRootLen}, {[n \in Entry |-> NoMeta]})

Top == stack[Len(stack)]
Pop == SubSeq(stack, 1, Len(stack) - 1)
SetTop(fr) == [stack EXCEPT ![Len(stack)] = fr]
NewFrame(path) == [basePath |-> path, open |-> FALSE, node |-> -1, todo |-> <<>>]

\* main, lines 167-173
Main_parse ==
    /\ pc = "start"
    /\ \E argv \in ArgvSet(fs) :
        LET r == parse_options(argv) IN
        /\ options' = r.options
        /\ given' = {argv[i].opt : i \in 1..Len(argv)}
        /\ IF r.result # 2
           THEN /\ pc' = "exit"
                /\ exitStatus' = MainEarlyReturn(r.result)
                /\ output' = [kind |-> "usage"]
                /\ stack' = stack
           ELSE /\ pc' = "walk"
                /\ stack' = <<NewFrame(r.options.basePath)>>
                /\ UNCHANGED <<exitStatus, output>>
    /\ cur' = Idle
    /\ UNCHANGED <<fs, latest, heap, hist>>

\* recurse_dir, lines 120-123: opendir
OpenDir ==
    /\ pc = "walk" /\ stack # <<>> /\ ~Top.open
    /\ LET n == Resolve(fs, Top.basePath) IN
       \E ok \in BOOLEAN :
         IF NodeIsDir(fs, n) /\ ok
         THEN /\ stack' = SetTop([Top EXCEPT !.open = TRUE, !.node = n,
                            !.todo = Listing(fs, n)])
              /\ hist' = [hist EXCEPT !.opened = @ \cup {n}]
         ELSE /\ stack' = Pop
              /\ hist' = [hist EXCEPT !.faulted = TRUE]
    /\ cur' = Idle
    /\ UNCHANGED <<fs, pc, options, given, latest, heap, output, exitStatus>>

InLoop == pc = "walk" /\ stack # <<>> /\ Top.open

\* The entry of the open directory that readdir returned under this name.
EntryOf(name) == CHOOSE c \in Children(fs, Top.node) : NameOf(c) = name

\* The name readdir returns next.
NextName == IF Top.todo = <<>> THEN {} ELSE {Head(Top.todo)}

RealNames == NextName \ {Dot, DotDot}

\* `continue`: the loop goes on with the entries readdir has not returned yet.
Continue(todo, name) == Tail(todo)

\* A stat failure that leaves the loop instead of going on with it.
StatFailure_break(todo, name) == <<>>

\* lines 135-138: stat failed, `continue`
StatFailure(todo, name) == Continue(todo, name)

\* stat(path, &statbuf) succeeding: the mode and the times of the node the
\* path names.  Times that Init did not fix are whatever stat reports.
StatOk(f, path) ==
    LET n == Resolve(f, path) IN
    IF n = -1 THEN {}
    ELSE IF n \in Entry /\ f.meta[n] # NoMeta
    THEN {[isDir |-> NodeIsDir(f, n), ctime |-> f.meta[n].ctime, mtime |-> f.meta[n].mtime]}
    ELSE {[isDir |-> NodeIsDir(f, n), ctime |-> c, mtime |-> m] : c \in Times, m \in Times}

\* line 141: options->beforeDate != NULL && is_after_date(statbuf.st_mtime, ...)
DateSkips(o, sb, r) == o.beforeDate # NULL /\ r

\* line 146: options->excludePattern != NULL && is_excluded(dp->d_name, ...)
NameSkips(o, name) ==
    o.excludePattern # NULL /\ is_excluded(name, o.excludePattern.chars)

Seen(e) == [hist EXCEPT !.iterated = @ \cup {e}]

\* lines 127-129: "." and ".."
Loop_dots ==
    /\ InLoop
    /\ \E name \in NextName \cap {Dot, DotDot} :
        stack' = SetTop([Top EXCEPT !.todo = Continue(@, name)])
    /\ cur' = Idle
    /\ UNCHANGED <<fs, pc, options, given, latest, heap, hist, output, exitStatus>>

\* lines 132-138: the path is built, stat fails
Loop_stat_fail ==
    /\ InLoop
    /\ \E name \in RealNames :
        LET path == JoinPath(Top.basePath, name)
            e == EntryOf(name)
        IN  /\ stack' = SetTop([Top EXCEPT !.todo = StatFailure(@, name)])
            /\ hist' = [Seen(e) EXCEPT !.faulted = TRUE]
            /\ cur' = [verdict |-> "statfail", entry |-> e, path |-> path]
    /\ UNCHANGED <<fs, pc, options, given, latest, heap, output, exitStatus>>

\* lines 132-143: stat succeeds, the date test says `continue`
Loop_skip_date ==
    /\ InLoop
    /\ \E name \in RealNames :
        LET path == JoinPath(Top.basePath, name)
            e == EntryOf(name)
        IN  \E sb \in StatOk(fs, path) :
            \E r \in is_after_date(sb.mtime, options.beforeDate) :
                /\ DateSkips(options, sb, r)
                /\ stack' = SetTop([Top EXCEPT !.todo = Continue(@, name)])
                /\ hist' = Seen(e)
                /\ cur' = [verdict |-> "date", entry |-> e, path |-> path, st |-> sb]
    /\ UNCHANGED <<fs, pc, options, given, latest, heap, output, exitStatus>>

\* lines 132-148: stat succeeds, the date test passes, the name is excluded
Loop_skip_name ==
    /\ InLoop
    /\ \E name \in RealNames :
        LET path == JoinPath(Top.basePath, name)
            e == EntryOf(name)
        IN  \E sb \in StatOk(fs, path) :
            \E r \in is_after_date(sb.mtime, options.beforeDate) :
                /\ ~DateSkips(options, sb, r)
                /\ NameSkips(options, name)
                /\ stack' = SetTop([Top EXCEPT !.todo = Continue(@, name)])
                /\ hist' = Seen(e)
                /\ cur' = [verdict |-> "name", entry |-> e, path |-> path, st |-> sb]
    /\ UNCHANGED <<fs, pc, options, given, latest, heap, output, exitStatus>>

\* lines 132-156: the entry passes, is offered to update_latest_file and, if
\* it is a directory, recurse_dir is called on its path
Loop_offer ==
    /\ InLoop
    /\ \E name \in RealNames :
        LET path == JoinPath(Top.basePath, name)
            e == EntryOf(name)
        IN  \E sb \in StatOk(fs, path) :
            \E r \in is_after_date(sb.mtime, options.beforeDate) :
            \E mallocOk \in BOOLEAN :
                LET u == update_latest_file(latest, heap, path, sb.ctime, sb.mtime, mallocOk)
                    rest == SetTop([Top EXCEPT !.todo = Continue(@, name)])
                IN  /\ ~DateSkips(options, sb, r)
                    /\ ~NameSkips(options, name)
                    /\ sb.isDir => Len(stack) < MaxStack
                    /\ latest' = u.latest
                    /\ heap' = u.heap
                    /\ stack' = IF sb.isDir THEN Append(rest, NewFrame(path)) ELSE rest
                    /\ hist' = [Seen(e) EXCEPT
                                  !.offered = TRUE,
                                  !.faulted = @ \/ u.malloc = "fail"]
                    /\ cur' = [verdict |-> "offer", entry |-> e, path |-> path,
                               st |-> sb, mallocOk |-> mallocOk, before |-> latest]
    /\ UNCHANGED <<fs, pc, options, given, output, exitStatus>>

\* lines 125, 159-160: readdir returns NULL, closedir, return 0
CloseDir ==
    /\ InLoop
    /\ Top.todo = <<>>
    /\ stack' = Pop
    /\ cur' = Idle
    /\ UNCHANGED <<fs, pc, options, given, latest, heap, hist, output, exitStatus>>

\* main, lines 175-186: the report, free, return 0
Main_report ==
    /\ pc = "walk" /\ stack = <<>>
    /\ output' = IF latest.path # NULL /\ latest.time # 0
                 THEN [kind |-> "file", path |-> latest.path, time |-> latest.time]
                 ELSE [kind |-> "nofile"]
    /\ heap' = heap \ {latest.path}
    /\ exitStatus' = 0
    /\ pc' = "exit"
    /\ cur' = Idle
    /\ UNCHANGED <<fs, options, given, stack, latest, hist>>

Next ==
    \/ Main_parse
    \/ OpenDir
    \/ Loop_dots
    \/ Loop_stat_fail
    \/ Loop_skip_date
    \/ Loop_skip_name
    \/ Loop_offer
    \/ CloseDir
    \/ Main_report

Spec == Init /\ [][Next]_vars

\* The same program on trees whose metadata is fixed in advance, with
\* distinct effective times.
InitKnown == InitWith({ShortRootLen}, KnownMetas)
SpecKnown == InitKnown /\ [][Next]_vars

\* The same program on root paths about as long as the path buffer.
LongRootLens == (PathBufSize - 1 - LongSlack)..(PathBufSize - 1)
InitLong == InitWith(LongRootLens, {[n \in Entry |-> NoMeta]})
SpecLong == InitLong /\ [][Next]_vars

\* ================================================================ claims
WalkReturned == pc = "walk" /\ stack = <<>>
Reported == pc = "exit" /\ output.kind # "usage"
Candidate == [path |-> cur.path, time |-> Effective(cur.st)]
WouldReplace == cur.before.path = NULL \/ Effective(cur.st) > cur.before.time

\* An entry passes both filters as the specification states them.
Qualifies(e) ==
    /\ options.beforeDate # NULL => Effective(fs.meta[e]) >= options.beforeDate.midnight
    /\ options.excludePattern # NULL => ~is_excluded(NameOf(e), options.excludePattern.chars)

Qualifying == {e \in Entry : Qualifies(e)}

\* C1: on a tree with distinct effective times, once recurse_dir on the root
\* has returned (no call having failed, the cutoff date, if any, well formed),
\* latest.time is the greatest effective time of the entries that pass both
\* filters and latest.path is the path of the entry that has it.
C1_LatestIsMaxQualifying ==
    (WalkReturned /\ ~hist.faulted /\ options.beforeDate # BadDate /\ Qualifying # {}) =>
        LET best == CHOOSE e \in Qualifying :
                        \A o \in Qualifying : Effective(fs.meta[o]) <= Effective(fs.meta[e])
        IN  /\ latest.time = Effective(fs.meta[best])
            /\ latest.path = FullPath(fs, best)

\* C2: a directory kept out of candidacy by a filter is still recursed into:
\* when no call failed, every entry of the tree has been visited by the time
\* the walk is over.
C2_FilteredDirStillTraversed ==
    (WalkReturned /\ ~hist.faulted) => hist.iterated = Entry

\* C3: with a well-formed cutoff date, the date test keeps an entry out
\* exactly when its effective time is before the cutoff.
C3_CutoffOnEffectiveTime ==
    (options.beforeDate = ValidDate /\ cur.verdict \in {"date", "name", "offer"}) =>
        (cur.verdict = "date" <=> Effective(cur.st) < options.beforeDate.midnight)

\* C4: after a walk in which no call failed, main prints "No file found"
\* exactly when no entry was offered to the accumulator, and otherwise the
\* accumulator's path and time.
C4_ReportIffOffered ==
    (Reported /\ ~hist.faulted) =>
        /\ output.kind = "nofile" <=> ~hist.offered
        /\ output.kind = "file" => output.path = latest.path /\ output.time = latest.time

ConfigError ==
    \/ "?" \in given
    \/ "p" \notin given /\ "h" \notin given
    \/ options.beforeDate = BadDate

\* C5: the exit status is non-zero only for configuration errors; a help run
\* does not walk and exits with status 0; a run that walks exits with 0.
C5_ExitStatus ==
    pc = "exit" =>
        /\ exitStatus # 0 => ConfigError
        /\ ("h" \in given /\ "?" \notin given) => exitStatus = 0 /\ hist = NoHist
        /\ output.kind # "usage" => exitStatus = 0

\* C6: with a malformed cutoff date the program never walks: no directory is
\* opened, no entry evaluated, and it exits with a non-zero status.
C6_BadDateBeforeWalk ==
    options.beforeDate = BadDate =>
        /\ pc # "walk"
        /\ hist = NoHist
        /\ pc = "exit" => exitStatus # 0

\* C7: failures are local.  When main has reported, the exit status is 0 and
\* every entry of every directory that could be opened has been returned by
\* readdir and evaluated, whatever failed for other entries or directories.
C7_FailuresAreLocal ==
    Reported =>
        /\ exitStatus = 0
        /\ \A d \in hist.opened : Children(fs, d) \subseteq hist.iterated

C7_Witness ==
    /\ Reported /\ hist.faulted /\ output.kind = "file"
    /\ hist.iterated # Entry
    /\ \E d \in hist.opened : Children(fs, d) # {}

\* C8 as stated: the candidate replaces the accumulator exactly when there is
\* no path yet or its effective time is strictly greater.
C8_ReplaceIffGreater ==
    cur.verdict = "offer" =>
        IF WouldReplace THEN latest = Candidate ELSE latest = cur.before

\* C8 amended: ... and the allocation of the copy of the path succeeds;
\* otherwise the accumulator is unchanged.
C8_ReplaceIffGreaterAndAllocated ==
    cur.verdict = "offer" =>
        IF WouldReplace /\ cur.mallocOk THEN latest = Candidate ELSE latest = cur.before

\* A candidate with the time of the current best was offered and the first
\* one stayed.
C8_Witness ==
    /\ cur.verdict = "offer"
    /\ cur.before.path # NULL
    /\ Effective(cur.st) = cur.before.time
    /\ cur.path # cur.before.path
    /\ latest = cur.before

\* C9: when the allocation for a new best path fails, the accumulator is as
\* before the call, the old path is still allocated, and the walk goes on.
C9_AllocFailureKeepsLatest ==
    (cur.verdict = "offer" /\ WouldReplace /\ ~cur.mallocOk) =>
        /\ latest = cur.before
        /\ latest.path # NULL => latest.path \in heap
        /\ pc = "walk" /\ stack # <<>>

C9_Witness ==
    /\ cur.verdict = "offer" /\ WouldReplace /\ ~cur.mallocOk
    /\ cur.before.path # NULL
    /\ latest = cur.before

\* C10: the nesting of recurse_dir calls never exceeds the depth of the
\* directory tree.
C10_DepthBoundedByTree == Len(stack) <= TreeDepth(fs)

====
